---- MODULE Spec2Model ----
(***************************************************************************)
(* Query routing and retrieval pipeline of the voice care assistant        *)
(* backend: determineIntent / processQuery (backend/src/rag.ts), the       *)
(* embedding adapter and queryPinecone (vectorStores/pineconeStore.ts),    *)
(* the business lookups and the local fallback retriever.                  *)
(*                                                                         *)
(* One action is one synchronous run of the JavaScript event loop: from    *)
(* the settlement of an awaited external call up to the next external      *)
(* call (or the return of processQuery).  Requests interleave only at      *)
(* those points.                                                           *)
(***************************************************************************)
EXTENDS Integers, Sequences, FiniteSets, TLC

(***************************************************************************)
(* Bounds of the model.                                                    *)
(***************************************************************************)
NumRequests == 2
MaxMatches == 2
MaxRanked == 4
MaxFair == 1
MaxRecords == 2
MaxChats == 2

Requests == 1..NumRequests

(***************************************************************************)
(* JavaScript values that cross the JSON / error boundary.                 *)
(***************************************************************************)
Undefined == [t |-> "undefined"]
Str(s) == [t |-> "string", s |-> s]
Num(n) == [t |-> "number", n |-> n]

IsStr(v) == v.t = "string"

\* JavaScript truthiness of an undefined / string / number value.
Truthy(v) ==
    CASE v.t = "undefined" -> FALSE
      [] v.t = "string" -> v.s # ""
      [] v.t = "number" -> v.n # 0

\* a || b
OrElse(a, b) == IF Truthy(a) THEN a ELSE b

\* v === 'lit'
StrictEq(v, lit) == v.t = "string" /\ v.s = lit

(***************************************************************************)
(* String helpers (String.prototype.includes / trim / toLowerCase /        *)
(* toUpperCase).                                                           *)
(***************************************************************************)
CharAt(s, i) == SubSeq(s, i, i)

Includes(s, sub) ==
    \E i \in 1..(Len(s) - Len(sub) + 1) : SubSeq(s, i, i + Len(sub) - 1) = sub

IsWhitespace(c) == c \in {" ", "\t", "\n", "\r"}

RECURSIVE TrimStart(_)
TrimStart(s) ==
    IF Len(s) > 0 /\ IsWhitespace(CharAt(s, 1))
    THEN TrimStart(SubSeq(s, 2, Len(s)))
    ELSE s

RECURSIVE TrimEnd(_)
TrimEnd(s) ==
    IF Len(s) > 0 /\ IsWhitespace(CharAt(s, Len(s)))
    THEN TrimEnd(SubSeq(s, 1, Len(s) - 1))
    ELSE s

Trim(s) == TrimEnd(TrimStart(s))

UpperAlpha == "ABCDEFGHIJKLMNOPQRSTUVWXYZ"
LowerAlpha == "abcdefghijklmnopqrstuvwxyz"

MapChar(c, from, to) ==
    IF \E i \in 1..Len(from) : CharAt(from, i) = c
    THEN CharAt(to, CHOOSE i \in 1..Len(from) : CharAt(from, i) = c)
    ELSE c

RECURSIVE MapString(_, _, _)
MapString(s, from, to) ==
    IF Len(s) = 0 THEN ""
    ELSE MapChar(CharAt(s, 1), from, to) \o MapString(SubSeq(s, 2, Len(s)), from, to)

ToLowerCase(s) == MapString(s, UpperAlpha, LowerAlpha)
ToUpperCase(s) == MapString(s, LowerAlpha, UpperAlpha)

(***************************************************************************)
(* Numbers beyond TLC's 32-bit integers: the JavaScript number x is kept   *)
(* as two limbs, x = hi * 65536 + lo with 0 <= lo < 65536 (hi carries the  *)
(* sign).  getOrderStatus's hash leaves the int32 range because only the   *)
(* shift, not the subtraction or the addition, is a 32-bit operation.      *)
(***************************************************************************)
Limb == 256 * 256
HalfLimb == Limb \div 2

Big(hi, lo) == [hi |-> hi, lo |-> lo]
BigOfNat(n) == Big(n \div Limb, n % Limb)
BigZero == Big(0, 0)

\* Renormalise after limb arithmetic (lo may be out of 0..Limb-1).
BigNorm(hi, lo) == Big(hi + (lo \div Limb), lo % Limb)

BigSub(a, b) == BigNorm(a.hi - b.hi, a.lo - b.lo)
BigAdd(a, b) == BigNorm(a.hi + b.hi, a.lo + b.lo)
BigNeg(a) == BigSub(BigZero, a)
BigIsNeg(a) == a.hi < 0
BigAbs(a) == IF BigIsNeg(a) THEN BigNeg(a) ELSE a

\* ToInt32 of the ECMAScript specification: wrap modulo 2^32 into
\* [-2^31, 2^31).
ToInt32(a) ==
    LET h == a.hi % Limb
    IN  Big(IF h >= HalfLimb THEN h - Limb ELSE h, a.lo)

\* x << 5 : ToInt32(x), shifted, truncated to 32 bits again.
ShiftLeft5(a) ==
    LET x == ToInt32(a)
    IN  ToInt32(BigNorm(x.hi * 32, x.lo * 32))

JsRem3Floor(a) == ((a.hi % 3) + (a.lo % 3)) % 3

\* x % 3 with JavaScript's sign-of-the-dividend remainder.
JsRem3(a) ==
    LET m == ((a.hi % 3) + (a.lo % 3)) % 3   \* 65536 % 3 = 1
    IN  IF BigIsNeg(a) /\ m # 0 THEN m - 3 ELSE m

Digits == "0123456789"

\* Number.prototype.toString() of a non-negative integer.
RECURSIVE BigToString(_)
BigToString(a) ==
    LET qhi == a.hi \div 10
        t   == (a.hi % 10) * Limb + a.lo
        q   == Big(qhi, t \div 10)
        d   == CharAt(Digits, (t % 10) + 1)
    IN  IF q = BigZero THEN d ELSE BigToString(q) \o d

SubstringAll(s, n) == s

\* String.prototype.substring(0, n)
Substring0(s, n) == SubSeq(s, 1, IF Len(s) < n THEN Len(s) ELSE n)

\* The printable ASCII characters in code order: codes 32..95, then 97..126
\* (code 96, the grave accent, cannot be written in a string here and occurs
\* in no identifier of the model).
AsciiFrom32 == " !\"#$%&'()*+,-./0123456789:;<=>?@ABCDEFGHIJKLMNOPQRSTUVWXYZ[\\]^_"
AsciiFrom97 == "abcdefghijklmnopqrstuvwxyz{|}~"

\* String.prototype.charCodeAt for one character.
CharCode(c) ==
    IF \E i \in 1..Len(AsciiFrom32) : CharAt(AsciiFrom32, i) = c
    THEN 31 + (CHOOSE i \in 1..Len(AsciiFrom32) : CharAt(AsciiFrom32, i) = c)
    ELSE 96 + (CHOOSE i \in 1..Len(AsciiFrom97) : CharAt(AsciiFrom97, i) = c)

(***************************************************************************)
(* Order-status lookup (backend/src/orderStub.ts).                         *)
(***************************************************************************)
\* One turn of the loop: hash = charCode + ((hash << 5) - hash).
OrderHashStep(hash, code) ==
    BigAdd(BigOfNat(code), BigSub(ShiftLeft5(hash), hash))

\* The loop over the characters of the id, from position i on.  (The test on
\* hash.lo is never true; reading the accumulator here keeps the evaluation
\* of the recursion shallow.)
RECURSIVE OrderHashFrom(_, _, _)
OrderHashFrom(orderId, i, hash) ==
    IF i > Len(orderId) \/ hash.lo < 0 THEN hash
    ELSE OrderHashFrom(orderId, i + 1,
                       OrderHashStep(hash, CharCode(CharAt(orderId, i))))

OrderHash(orderId) == OrderHashFrom(orderId, 1, BigZero)

OrderStatusDataAbs(orderId) ==
    LET hash == BigAbs(OrderHash(orderId))
    IN  IF JsRem3(hash) = 0
        THEN [status |-> "Shipped",
              trackingNumber |-> "TRK" \o Substring0(BigToString(hash), 7),
              deliveryDate |-> "October 5th"]
        ELSE IF JsRem3(hash) = 1
        THEN [status |-> "Processing", trackingNumber |-> "N/A",
              deliveryDate |-> "Unknown"]
        ELSE [status |-> "Delivered", trackingNumber |-> "N/A",
              deliveryDate |-> "September 28th"]

OrderStatusData(orderId) ==
    LET hash == OrderHash(orderId)
    IN  IF JsRem3(hash) = 0
        THEN [status |-> "Shipped",
              trackingNumber |-> "TRK" \o Substring0(BigToString(BigAbs(hash)), 7),
              deliveryDate |-> "October 5th"]
        ELSE IF JsRem3(hash) = 1
        THEN [status |-> "Processing", trackingNumber |-> "N/A",
              deliveryDate |-> "Unknown"]
        ELSE [status |-> "Delivered", trackingNumber |-> "N/A",
              deliveryDate |-> "September 28th"]

getOrderStatus(orderId) ==
    LET d == OrderStatusData(orderId)
        message == "The status for your order **" \o ToUpperCase(orderId)
                   \o "** is currently **" \o d.status \o "**."
    IN  CASE d.status = "Shipped" ->
               message \o " It is expected to arrive on " \o d.deliveryDate
                       \o ". Your tracking number is " \o d.trackingNumber \o "."
          [] d.status = "Delivered" ->
               message \o " It was successfully delivered on " \o d.deliveryDate \o "."
          [] d.status = "Processing" ->
               message \o " We are still preparing your item for shipment. We will notify you when it ships."
          [] OTHER -> message

(***************************************************************************)
(* Product-info lookup (backend/src/productInfo.ts).                       *)
(***************************************************************************)
productKeys == <<"pro suite", "basic plan", "monitor x">>

productData(key) ==
    CASE key = "pro suite" ->
           [name |-> "Apex Pro Suite",
            details |-> "The Apex Pro Suite is our premium offering, featuring real-time data analytics, unlimited cloud storage, and priority 24/7 technical support. It is currently available for purchase with a 15% introductory discount.",
            availability |-> "In Stock"]
      [] key = "basic plan" ->
           [name |-> "Apex Basic Plan",
            details |-> "The Basic Plan provides essential features, including 10GB of cloud storage and community-level support. It's a great starting point for individual users.",
            availability |-> "Always Available"]
      [] key = "monitor x" ->
           [name |-> "Monitor X",
            details |-> "Monitor X is a 32-inch 4K curved display with a 144Hz refresh rate and built-in eye-care technology. Comes with a 2-year warranty.",
            availability |-> "Low Stock - Next shipment in 3 days."]

ProductKeyEquals(key, normalizedName) == key = normalizedName

ProductKeyMatches(key, normalizedName) ==
    Includes(normalizedName, key) \/ Includes(key, normalizedName)

FindLastProductKey(normalizedName) ==
    LET hits == {i \in 1..Len(productKeys) : ProductKeyMatches(productKeys[i], normalizedName)}
    IN  IF hits = {} THEN 0 ELSE CHOOSE i \in hits : \A j \in hits : i >= j

\* Array.prototype.find: the index of the first matching key, 0 when none.
FindProductKey(normalizedName) ==
    LET hits == {i \in 1..Len(productKeys) : ProductKeyMatches(productKeys[i], normalizedName)}
    IN  IF hits = {} THEN 0 ELSE CHOOSE i \in hits : \A j \in hits : i <= j

getProductInfo(productName) ==
    LET normalizedName == Trim(ToLowerCase(productName))
        k == FindProductKey(normalizedName)
    IN  IF k # 0
        THEN LET product == productData(productKeys[k])
             IN  product.name \o " details: " \o product.details
                 \o " Current Availability: " \o product.availability
        ELSE "I'm sorry, I couldn't find specific details for a product named \""
             \o productName
             \o "\". Could you please check the spelling or ask about 'Pro Suite', 'Basic Plan', or 'Monitor X'?"

(***************************************************************************)
(* Local fallback retriever (backend/src/vectorStores/faissFallback.ts).   *)
(***************************************************************************)
FallbackMarker == "(Source: Local FAISS Fallback for query: "

queryFaissFallback(query) ==
    LET errorDetails == "I encountered a high-traffic issue with my main knowledge base server."
        helpfulMessage == "I can still provide some basic guidance, but for detailed policy information, please check our help page."
    IN  <<errorDetails \o " " \o helpfulMessage \o " " \o FallbackMarker \o query \o ").">>


(***************************************************************************)
(* The inputs of the model: the query texts, and the strings the           *)
(* classifier extracts as details.                                         *)
(***************************************************************************)
Queries ==
    { "What's your return policy?", "Tell me about Monitor X" }

DetailStrings == { "", "None", "General", "ABC1234", "Monitor X", "ZX99Q" }

\* Order ids and product names for the lookups taken on their own: ids in
\* both letter cases and with surrounding blanks, ids of 7 and 8 characters
\* (whose hash leaves the int32 range), product names in several spellings,
\* fragments of catalog keys, a text with two product names, names of no
\* product.
OrderIds ==
    { "ABC1234", " ABC1234", "XY123", "xy123", "ZX99Q", "ORD77777", "Q1W2E3R4",
      "A1B2C3", "a1b2c3", "a", "c" }

ProductNames ==
    { "Monitor X", "  MONITOR X ", "Tell me about Monitor X", "Pro Suite",
      "the apex pro suite", "Pro Suite or Monitor X", "Basic Plan", " pro", "x",
      "", "Widget Z", "widget z ", "n" }

\* Query texts for the Context Selector taken on its own: the keyword
\* "return" in lower and in upper case, and a query without it.
SelectorQueries ==
    { "What's your return policy?", "How do I RETURN an item?", "Tell me about Monitor X" }

\* The pure string functions are evaluated once per input and looked up in
\* these tables afterwards.
OrderStatusTable ==
    [s \in DetailStrings \cup Queries \cup OrderIds |-> getOrderStatus(s)]
ProductInfoTable ==
    [s \in DetailStrings \cup Queries \cup ProductNames |-> getProductInfo(s)]
ReturnQueryTable ==
    [q \in Queries \cup SelectorQueries |-> Includes(ToLowerCase(q), "return")]

(***************************************************************************)
(* Errors: a thrown JavaScript error object, with the two fields the code  *)
(* inspects.                                                               *)
(***************************************************************************)
Err(status, message) == [status |-> status, message |-> message]

TypeError == Err(Undefined, "TypeError: not a function")

(***************************************************************************)
(* Embedding adapter (vectorStores/pineconeStore.ts).                      *)
(***************************************************************************)
EMBEDDING_DIMENSION == 768

\* Array.from({ length: EMBEDDING_DIMENSION }, () => Math.random() - 0.5):
\* the entries are random, only the length and the origin are kept.
MockVector == [len |-> EMBEDDING_DIMENSION, synthetic |-> TRUE]

\* embed(text) -> vector[D] of the embedding service.
ProviderVector == [len |-> EMBEDDING_DIMENSION, synthetic |-> FALSE]

EmptyResultError ==
    Err(Undefined, "Google Embedding API returned an empty result or missing embedding values.")

\* What ai.models.embedContent can settle with: a result carrying values, a
\* result without values, or a rejection.
ProviderErrors ==
    { Err(Num(429), "Too Many Requests"),
      Err(Undefined, "Quota exceeded for metric: embed_content_requests"),
      Err(Num(429), "Quota exceeded for metric: embed_content_requests"),
      Err(Num(500), "Internal error encountered."),
      Err(Undefined, "fetch failed") }

EmbedOutcomes ==
    { [kind |-> "values"], [kind |-> "novalues"] }
    \cup { [kind |-> "reject", error |-> e] : e \in ProviderErrors }

\* A quota-exhaustion signal of the provider, as the environment sends it:
\* HTTP status 429, or a message that contains "Quota exceeded".
CarriesQuotaSignal(error) ==
    error.status = Num(429) \/ Includes(error.message, "Quota exceeded")

IsQuotaSignalStatusOnly(error) == error.status = Num(429)

\* error.status === 429 || error.message?.includes("Quota exceeded")
IsQuotaSignal(error) ==
    error.status = Num(429) \/ Includes(error.message, "Quota exceeded")

\* The error that reaches the catch block of generateGoogleEmbedding, if any.
EmbedCaught(out) ==
    CASE out.kind = "values" -> [caught |-> FALSE]
      [] out.kind = "novalues" -> [caught |-> TRUE, error |-> EmptyResultError]
      [] out.kind = "reject" -> [caught |-> TRUE, error |-> out.error]

EmbedCatchSwallowsAll(error, flag) ==
    [threw |-> FALSE, vector |-> MockVector, flag |-> TRUE]

EmbedCatchKeepsFlag(error, flag) ==
    IF CarriesQuotaSignal(error)
    THEN [threw |-> FALSE, vector |-> MockVector, flag |-> flag]
    ELSE [threw |-> TRUE, error |-> error, flag |-> flag]

\* The catch block: a quota signal sets the flag and answers with a mock
\* vector, any other error is thrown again.
EmbedCatch(error, flag) ==
    IF IsQuotaSignal(error)
    THEN [threw |-> FALSE, vector |-> MockVector, flag |-> TRUE]
    ELSE [threw |-> TRUE, error |-> error, flag |-> flag]

EmbedSettleResetsFlag(out, flag) ==
    LET c == EmbedCaught(out)
    IN  IF c.caught
        THEN EmbedCatch(c.error, flag)
        ELSE [threw |-> FALSE, vector |-> ProviderVector, flag |-> FALSE]

\* The part of generateGoogleEmbedding that runs once the provider call has
\* settled with `out`, the flag being `flag` at that moment.
EmbedSettle(out, flag) ==
    LET c == EmbedCaught(out)
    IN  IF c.caught
        THEN EmbedCatch(c.error, flag)
        ELSE [threw |-> FALSE, vector |-> ProviderVector, flag |-> flag]

EmbedNeverShortCircuits(flag) == FALSE

\* The first lines of generateGoogleEmbedding: TRUE when the call answers
\* with a mock vector without contacting the provider.
EmbedShortCircuits(flag) == flag

(***************************************************************************)
(* Intent classifier (backend/src/rag.ts, determineIntent).                *)
(***************************************************************************)
\* The classification call settles with a rejection, with a response that
\* has no text (undefined or ""), with text JSON.parse rejects, or with text
\* JSON.parse turns into a value: null, or an object of which the fields
\* intent, details and orderId are read (Undefined: the field is missing).
IntentValues ==
    { Undefined, Str("RAG"), Str("Order_Status"), Str("Product_Info"), Str("Chitchat") }

DetailsValues ==
    { Undefined, Num(12345) } \cup { Str(s) : s \in DetailStrings \ {"ZX99Q"} }

OrderIdValues == { Undefined, Str("ZX99Q") }

\* (orderId is read only when details is missing or empty.)
ClassifierOutcomes ==
    { [kind |-> "reject"], [kind |-> "notext"], [kind |-> "badjson"], [kind |-> "null"] }
    \cup { [kind |-> "object", intent |-> i, details |-> d, orderId |-> Undefined] :
             i \in IntentValues, d \in DetailsValues }
    \cup { [kind |-> "object", intent |-> i, details |-> d, orderId |-> o] :
             i \in IntentValues, d \in { Undefined, Str("") }, o \in OrderIdValues }

IntentFallbackGeneral == [intent |-> Str("General"), details |-> Str("")]

\* The catch block of determineIntent.
IntentFallback == [intent |-> Str("RAG"), details |-> Str("")]

\* determineIntent, once the classification call has settled with `out`.
determineIntent(out) ==
    IF out.kind = "object"
    THEN [intent |-> out.intent,
          details |-> OrElse(OrElse(out.details, out.orderId), Str(""))]
    ELSE IntentFallback


(***************************************************************************)
(* Context Selector and answer generation (queryPinecone).                 *)
(***************************************************************************)
\* One scored match of index.query; hasMeta is FALSE when the match carries
\* no metadata.
Match(doc_id, answer) == [hasMeta |-> TRUE, doc_id |-> doc_id, answer |-> answer]
BareMatch == [hasMeta |-> FALSE, doc_id |-> "", answer |-> ""]

KnowledgeMatches ==
    { Match("Returns Policy", "Items can be returned within 30 days."),
      Match("Shipping FAQ", "Standard shipping takes 3-5 business days.") }

RECURSIVE SeqsUpTo(_, _)
SeqsUpTo(S, n) ==
    IF n = 0 THEN { <<>> }
    ELSE LET shorter == SeqsUpTo(S, n - 1)
         IN  shorter \cup { Append(q, x) : q \in { t \in shorter : Len(t) = n - 1 }, x \in S }

\* index.query({ vector, topK: 8, includeMetadata: true })
topK == 8

\* What index.query can settle with: a rejection or a ranked match list.
SearchOutcomes ==
    { [kind |-> "reject"] }
    \cup { [kind |-> "matches", matches |-> m] :
             m \in SeqsUpTo(KnowledgeMatches \cup {BareMatch}, MaxMatches) }

\* Ranked match lists for the Context Selector taken on its own: up to
\* MaxRanked matches, among them two different records of the same document.
RankedMatches ==
    KnowledgeMatches
    \cup { Match("Returns Policy", "Refunds are issued within 5 business days."), BareMatch }

RankedLists == SeqsUpTo(RankedMatches, MaxRanked)

\* query.toLowerCase().includes("return")
IsReturnQuery(query) == ReturnQueryTable[query]

SliceAll(q) == q

\* Array.prototype.slice(0, 3)
Slice3(q) == SubSeq(q, 1, IF Len(q) < 3 THEN Len(q) ELSE 3)

FormatChunk(m) == "Context: " \o m.answer \o " (Source: " \o m.doc_id \o " doc)"

FormatAll(q) == [i \in 1..Len(q) |-> FormatChunk(q[i])]

KeepEveryRecord(record, isReturn) == TRUE

\* The predicate of the .filter(...) call; isReturn is
\* query.toLowerCase().includes("return").
KeepRecord(record, isReturn) ==
    (record.doc_id = "Returns Policy" /\ isReturn) \/ ~isReturn

\* Destructuring match.metadata! throws when a match has no metadata.
SelectThrows(matches) == \E i \in 1..Len(matches) : ~matches[i].hasMeta

\* contextChunks after the map / filter / slice / map chain and the fallback
\* for non-return queries.
SelectContext(query, matches) ==
    LET isReturn == IsReturnQuery(query)
        Keep(m) == KeepRecord(m, isReturn)
        contextChunks == FormatAll(Slice3(SelectSeq(matches, Keep)))
    IN  IF Len(contextChunks) = 0 /\ ~isReturn
        THEN FormatAll(Slice3(matches))
        ELSE contextChunks

NoMatchAnswer == "No strong matches were found for your query in the knowledge base."

\* What the answer-generation call can settle with: a rejection, a response
\* without text (undefined or ""), or a response with text.
GeneratedTexts ==
    { "   ", "\n", " The maximum return period is 30 days (from Returns Policy doc). ",
      "I cannot answer that from the knowledge base." }

TrimTable == [t \in GeneratedTexts |-> Trim(t)]

GenerateOutcomes ==
    { [kind |-> "reject"], [kind |-> "notext"] }
    \cup { [kind |-> "text", text |-> t] : t \in GeneratedTexts }

GenerationFailedError == Err(Undefined, "Gemini API failed to generate text content.")
ServiceError == Err(Num(503), "Service Unavailable")

GenerateSettleBlankAnswer(out) ==
    CASE out.kind = "reject" -> [threw |-> TRUE, error |-> ServiceError]
      [] out.kind = "notext" -> [threw |-> FALSE, answer |-> ""]
      [] out.kind = "text" -> [threw |-> FALSE, answer |-> TrimTable[out.text]]

\* The end of queryPinecone, once the generation call has settled.
GenerateSettle(out) ==
    CASE out.kind = "reject" -> [threw |-> TRUE, error |-> ServiceError]
      [] out.kind = "notext" -> [threw |-> TRUE, error |-> GenerationFailedError]
      [] out.kind = "text" -> [threw |-> FALSE, answer |-> TrimTable[out.text]]

(***************************************************************************)
(* Query Router (backend/src/rag.ts, processQuery).                        *)
(***************************************************************************)
Intents == { "General", "RAG", "Order_Status", "Product_Info" }

BotResponse(answer, intent) == [answer |-> answer, intent |-> intent]

ClarificationResponseUnlabelled ==
    BotResponse("I'm sorry, I couldn't understand your request. Could you please rephrase it?",
                "Unknown")

ClarificationResponse ==
    BotResponse("I'm sorry, I couldn't understand your request. Could you please rephrase it?",
                "General")

ApologyResponse ==
    BotResponse("An unexpected error occurred while processing your request. Please try again later.",
                "General")

ProcessQueryCatchRethrows(error) ==
    IF error = TypeError
    THEN [escaped |-> TRUE, response |-> ApologyResponse]
    ELSE [escaped |-> FALSE, response |-> ApologyResponse]

\* The catch block of processQuery.
ProcessQueryCatch(error) == [escaped |-> FALSE, response |-> ApologyResponse]

\* (details && details !== 'None')
UsableDetails(details) == Truthy(details) /\ ~StrictEq(details, "None")

RouteUnknownToRag(intent, details) ==
    IF StrictEq(intent, "Order_Status") /\ UsableDetails(details) THEN "order"
    ELSE IF StrictEq(intent, "Product_Info") /\ ~StrictEq(details, "General") THEN "product"
    ELSE "rag"

\* The branch processQuery takes for a classification.
Route(intent, details) ==
    IF StrictEq(intent, "Order_Status") /\ UsableDetails(details) THEN "order"
    ELSE IF StrictEq(intent, "Product_Info") /\ ~StrictEq(details, "General") THEN "product"
    ELSE IF StrictEq(intent, "RAG") \/ StrictEq(intent, "Order_Status")
            \/ StrictEq(intent, "Product_Info") THEN "rag"
    ELSE "general"

RagArgumentFromDetails(details, query) == details

\* The argument of queryPinecone in the RAG branch.
RagArgument(details, query) == Str(query)

RagResponseAsFailure(ragAnswer) ==
    IF ragAnswer = NoMatchAnswer THEN ApologyResponse ELSE BotResponse(ragAnswer, "RAG")

\* The response of the RAG branch, once queryPinecone has returned [ragAnswer].
RagResponse(ragAnswer) == BotResponse(ragAnswer, "RAG")

\* productIdentifier
ProductIdentifier(details, query) ==
    IF UsableDetails(details) THEN details ELSE Str(query)

\* getOrderStatus / getProductInfo applied to a value that need not be a
\* string: toUpperCase / toLowerCase of a non-string throws a TypeError.
OrderLookup(v) ==
    IF IsStr(v) THEN [threw |-> FALSE, answer |-> OrderStatusTable[v.s]]
    ELSE [threw |-> TRUE, error |-> TypeError]

ProductLookup(v) ==
    IF IsStr(v) THEN [threw |-> FALSE, answer |-> ProductInfoTable[v.s]]
    ELSE [threw |-> TRUE, error |-> TypeError]


(***************************************************************************)
(* HTTP boundary (the express handler of POST /api/query).                 *)
(***************************************************************************)
\* The values the field `query` of a request body can have: missing, not a
\* string, the empty string, a query text.
QueryValues == { Undefined, Num(42), Str("") } \cup { Str(q) : q \in Queries }

\* if (!query || typeof query !== 'string')
HttpRejects(v) == ~Truthy(v) \/ ~IsStr(v)

\* What the handler has sent: nothing yet, a BotResponse or an error object.
HttpReply(status, json, response, error) ==
    [status |-> status, json |-> json, response |-> response, error |-> error]

NoResponse == [answer |-> "", intent |-> "(none)"]
NoReply == HttpReply(0, "(none)", NoResponse, "")

BadRequestAsServerError ==
    HttpReply(500, "error", NoResponse, "Query parameter is required.")

BadRequest == HttpReply(400, "error", NoResponse, "Query parameter is required.")

ServerError ==
    HttpReply(500, "error", NoResponse,
              "An unexpected internal server error occurred while processing your request.")

HttpSettleFailsOnApology(escaped, response) ==
    IF escaped \/ response = ApologyResponse THEN ServerError
    ELSE HttpReply(200, "response", response, "")

\* The handler once processQuery has settled: res.json(response), or the
\* catch block when processQuery threw.
HttpSettle(escaped, response) ==
    IF escaped THEN ServerError ELSE HttpReply(200, "response", response, "")

(***************************************************************************)
(* State.                                                                  *)
(*   useMockEmbedding  the module-level flag of pineconeStore.ts           *)
(*   pc[r]             where request r is suspended (which await)          *)
(*   query[r]          the argument of processQuery                        *)
(*   calls[r]          the calls request r has made so far, in order       *)
(*   quotaSeen         history: some embedding call met a quota signal     *)
(*   event             history: what the last step did (httpQuery and http *)
(*                     are the query field of the request body and what    *)
(*                     the handler sent in this step; its local values:    *)
(*                     classification, vector, chunks, error, response);   *)
(*                     clsKind and clsIntent are what the classification   *)
(*                     call answered, intentResult what determineIntent    *)
(*                     returned, ragArg what queryPinecone was called      *)
(*                     with, ragAnswer what it returned, topK the number   *)
(*                     of matches asked of index.query when this step      *)
(*                     called it (0 when it did not), genMessage the       *)
(*                     user message of the generation call, genKind how    *)
(*                     that call settled                                   *)
(*   lookup            history of the business lookups taken on their own: *)
(*                     the last call and the one before it (function,      *)
(*                     argument, returned message)                         *)
(*   selection         the Context Selector taken on its own: the query,   *)
(*                     the ranked matches and what the selection gave      *)
(*   ingest            the ingestion script taken on its own: where        *)
(*                     ingestData is suspended, the index as the vector    *)
(*                     store holds it, the script's locals and flag, and   *)
(*                     the calls it has made so far                        *)
(*   ui                the chat UI taken on its own: the message list, the *)
(*                     typing indicator, the calls of processUserQuery     *)
(*                     that wait for the backend, the number of requests   *)
(*                     posted, and what the last step did                  *)
(***************************************************************************)
VARIABLES useMockEmbedding, pc, query, calls, quotaSeen, event, lookup, selection,
          ingest, ui

vars == <<useMockEmbedding, pc, query, calls, quotaSeen, event, lookup, selection,
          ingest, ui>>

\* The variables of the router and its requests, and those of the components
\* taken on their own.
routerVars == <<useMockEmbedding, pc, query, calls, quotaSeen, event>>
componentVars == <<lookup, selection, ingest, ui>>

NoError == Err(Undefined, "(none)")
NoVector == [len |-> 0, synthetic |-> FALSE]
NoIntent == [intent |-> Undefined, details |-> Undefined]
NoCall == [fn |-> "(none)", arg |-> "", result |-> ""]
NoSelection == [done |-> FALSE, query |-> "", matches |-> <<>>, threw |-> FALSE,
                contextChunks |-> <<>>]

\* The vector store holds no index of the configured name.
Absent == 0

\* ingestData before its first statement.  indexDimension is the dimension of
\* the index as the vector store holds it (Absent when there is none),
\* indexAtStart the same when listIndexes was called; quotaAt is the record
\* whose embedding met a quota signal (0 when none did), stored the vectors
\* the store has accepted; ops is the list of the calls made to the vector
\* store and the embedding provider, in order.
NoIngest ==
    [ pc |-> "start", indexDimension |-> Absent, indexAtStart |-> Absent,
      existingIndexInfo |-> FALSE, indexNeedsCreation |-> TRUE,
      described |-> "", currentDimension |-> Absent,
      prepared |-> FALSE, records |-> 0, next |-> 0, vectors |-> <<>>,
      useMockEmbedding |-> FALSE, upserted |-> FALSE, caught |-> FALSE,
      quotaAt |-> 0, stored |-> <<>>,
      ops |-> <<>> ]

\* The first message of the chat, set by useState.
Greeting ==
    [ role |-> "bot",
      text |-> "Hello! I'm your AI care assistant. Ask me about returns, shipping, order status, or product details.",
      sources |-> "" ]

NoChatStep == [op |-> "(none)", queryText |-> "", resolved |-> FALSE, answer |-> "",
               spoken |-> 0, raised |-> FALSE]

\* The App component after its first render.
NoChat ==
    [ messages |-> <<Greeting>>, isTyping |-> FALSE, pending |-> <<>>, posted |-> 0,
      last |-> NoChatStep ]

BlankEvent ==
    [ op |-> "init", req |-> 0, query |-> "", calls |-> <<>>,
      httpQuery |-> Undefined, http |-> NoReply,
      finished |-> FALSE, response |-> NoResponse,
      threw |-> FALSE, caught |-> NoError, escaped |-> FALSE,
      clsKind |-> "", clsIntent |-> Undefined,
      intentResult |-> NoIntent, route |-> "",
      ragArg |-> Undefined, ragAnswer |-> Undefined,
      embedCalled |-> FALSE, providerContacted |-> FALSE,
      embedSettled |-> FALSE, embedErr |-> NoError, embedThrew |-> FALSE,
      vector |-> NoVector,
      topK |-> 0, searched |-> FALSE, searchKind |-> "", matchCount |-> 0, chunks |-> <<>>,
      genMessage |-> Undefined, genKind |-> "",
      fallbackCalled |-> FALSE ]

\* processQuery returns `response`.
Return(ev, response) ==
    [ev EXCEPT !.finished = TRUE, !.response = response]

\* An exception reaches the try block of processQuery.
Throw(ev, error) ==
    LET c == ProcessQueryCatch(error)
    IN  [ev EXCEPT !.finished = TRUE, !.threw = TRUE, !.caught = error,
                   !.escaped = c.escaped,
                   !.response = IF c.escaped THEN NoResponse ELSE c.response]

Log(ev, names) == [ev EXCEPT !.calls = ev.calls \o names]

\* queryPinecone returns [ragAnswer] and processQuery returns the response
\* of its RAG branch.
ReturnRag(ev, ragAnswer) ==
    Return([ev EXCEPT !.ragAnswer = Str(ragAnswer)], RagResponse(ragAnswer))

\* queryPinecone from its first line to its first pending external call:
\* generateGoogleEmbedding either answers at once with a mock vector, and
\* index.query is called, or it calls the provider.
StartRag(ev, flag) ==
    LET e1 == Log([ev EXCEPT !.embedCalled = TRUE],
                  <<"queryPinecone", "generateGoogleEmbedding">>)
    IN  IF EmbedShortCircuits(flag)
        THEN [ev |-> Log([e1 EXCEPT !.embedSettled = TRUE, !.vector = MockVector,
                                         !.topK = topK],
                         <<"index.query">>),
              pc |-> "awaitSearch"]
        ELSE [ev |-> Log([e1 EXCEPT !.providerContacted = TRUE], <<"embedContent">>),
              pc |-> "awaitEmbed"]

RouteQueryAllThroughRag(ev0, di, q, flag) ==
    StartRag([ev0 EXCEPT !.intentResult = di,
                         !.route = Route(di.intent, di.details),
                         !.ragArg = RagArgument(di.details, q)], flag)

\* processQuery after determineIntent has returned `di`.
RouteQuery(ev0, di, q, flag) ==
    LET route == Route(di.intent, di.details)
        ev == [ev0 EXCEPT !.intentResult = di, !.route = route]
    IN  CASE route = "order" ->
               LET lk == OrderLookup(di.details)
                   e1 == Log(ev, <<"getOrderStatus">>)
               IN  [ev |-> IF lk.threw THEN Throw(e1, lk.error)
                           ELSE Return(e1, BotResponse(lk.answer, "Order_Status")),
                    pc |-> "idle"]
          [] route = "product" ->
               LET lk == ProductLookup(ProductIdentifier(di.details, q))
                   e1 == Log(ev, <<"getProductInfo">>)
               IN  [ev |-> IF lk.threw THEN Throw(e1, lk.error)
                           ELSE Return(e1, BotResponse(lk.answer, "Product_Info")),
                    pc |-> "idle"]
          [] route = "rag" ->
               StartRag([ev EXCEPT !.ragArg = RagArgument(di.details, q)], flag)
          [] OTHER -> [ev |-> Return(ev, ClarificationResponse), pc |-> "idle"]

AfterEmbedRetries(ev0, res) ==
    LET ev == [ev0 EXCEPT !.embedSettled = TRUE]
    IN  IF res.threw
        THEN [ev |-> [ev EXCEPT !.embedThrew = TRUE], pc |-> "awaitEmbed"]
        ELSE [ev |-> Log([ev EXCEPT !.vector = res.vector, !.topK = topK],
                         <<"index.query">>),
              pc |-> "awaitSearch"]

\* queryPinecone after generateGoogleEmbedding has settled with `res`.
AfterEmbed(ev0, res) ==
    LET ev == [ev0 EXCEPT !.embedSettled = TRUE]
    IN  IF res.threw
        THEN [ev |-> Throw([ev EXCEPT !.embedThrew = TRUE], res.error), pc |-> "idle"]
        ELSE [ev |-> Log([ev EXCEPT !.vector = res.vector, !.topK = topK],
                         <<"index.query">>),
              pc |-> "awaitSearch"]

AfterSearchRetries(ev0, out, q) ==
    LET ev == [ev0 EXCEPT !.searched = TRUE, !.searchKind = out.kind]
    IN  IF out.kind = "reject"
        THEN [ev |-> Log([ev EXCEPT !.topK = topK], <<"index.query">>),
              pc |-> "awaitSearch"]
        ELSE [ev |-> ReturnRag(ev, NoMatchAnswer), pc |-> "idle"]

\* queryPinecone after index.query has settled with `out`.
AfterSearch(ev0, out, q) ==
    LET ev == [ev0 EXCEPT !.searched = TRUE, !.searchKind = out.kind]
    IN  IF out.kind = "reject"
        THEN [ev |-> Throw(ev, ServiceError), pc |-> "idle"]
        ELSE LET e1 == [ev EXCEPT !.matchCount = Len(out.matches)]
             IN  IF SelectThrows(out.matches)
                 THEN [ev |-> Throw(e1, TypeError), pc |-> "idle"]
                 ELSE LET contextChunks == SelectContext(q, out.matches)
                          e2 == [e1 EXCEPT !.chunks = contextChunks]
                      IN  IF Len(contextChunks) = 0
                          THEN [ev |-> ReturnRag(e2, NoMatchAnswer),
                                pc |-> "idle"]
                          ELSE [ev |-> Log([e2 EXCEPT !.genMessage = Str(q)],
                                           <<"generateContent">>),
                                pc |-> "awaitGenerate"]

\* queryPinecone and processQuery after the generation call has settled.
AfterGenerate(ev0, out) ==
    LET g == GenerateSettle(out)
        ev == [ev0 EXCEPT !.genKind = out.kind]
    IN  [ev |-> IF g.threw THEN Throw(ev, g.error)
                ELSE ReturnRag(ev, g.answer),
         pc |-> "idle"]

Init ==
    /\ useMockEmbedding = FALSE
    /\ pc = [r \in Requests |-> "idle"]
    /\ query = [r \in Requests |-> ""]
    /\ calls = [r \in Requests |-> <<>>]
    /\ quotaSeen = FALSE
    /\ event = BlankEvent
    /\ lookup = [prev |-> NoCall, last |-> NoCall]
    /\ selection = NoSelection
    /\ ingest = NoIngest
    /\ ui = NoChat

\* The step of request r ends as `res` says: suspended at res.pc, or
\* finished (processQuery has returned and the slot is free again).
Advance(r, res) ==
    /\ event' = IF res.ev.finished
                THEN [res.ev EXCEPT !.http = HttpSettle(res.ev.escaped, res.ev.response)]
                ELSE res.ev
    /\ IF res.ev.finished
       THEN /\ pc' = [pc EXCEPT ![r] = "idle"]
            /\ query' = [query EXCEPT ![r] = ""]
            /\ calls' = [calls EXCEPT ![r] = <<>>]
       ELSE /\ pc' = [pc EXCEPT ![r] = res.pc]
            /\ calls' = [calls EXCEPT ![r] = res.ev.calls]
            /\ UNCHANGED query

StepEvent(op, r) ==
    [BlankEvent EXCEPT !.op = op, !.req = r, !.query = query[r], !.calls = calls[r]]

\* A request arrives: the handler answers 400, or calls processQuery(query),
\* whose determineIntent issues the classification call.
Receive(r) ==
    /\ pc[r] = "idle"
    /\ \E v \in QueryValues :
         IF HttpRejects(v)
         THEN /\ event' = [BlankEvent EXCEPT !.op = "receive", !.req = r,
                                             !.httpQuery = v, !.http = BadRequest]
              /\ UNCHANGED <<pc, query, calls>>
         ELSE /\ query' = [query EXCEPT ![r] = v.s]
              /\ pc' = [pc EXCEPT ![r] = "awaitClassify"]
              /\ calls' = [calls EXCEPT ![r] = <<"classify">>]
              /\ event' = [BlankEvent EXCEPT !.op = "receive", !.req = r,
                                             !.httpQuery = v, !.query = v.s,
                                             !.calls = <<"classify">>]
    /\ UNCHANGED <<useMockEmbedding, quotaSeen, componentVars>>

\* The classification call settles; processQuery routes the query.
ClassifyReturn(r) ==
    /\ pc[r] = "awaitClassify"
    /\ \E out \in ClassifierOutcomes :
         Advance(r, RouteQuery([StepEvent("classify", r) EXCEPT
                                   !.clsKind = out.kind,
                                   !.clsIntent = IF out.kind = "object" THEN out.intent
                                                 ELSE Undefined],
                               determineIntent(out), query[r], useMockEmbedding))
    /\ UNCHANGED <<useMockEmbedding, quotaSeen, componentVars>>

\* The provider's embedContent call settles.
EmbedReturn(r) ==
    /\ pc[r] = "awaitEmbed"
    /\ \E out \in EmbedOutcomes :
         LET c == EmbedCaught(out)
             res == EmbedSettle(out, useMockEmbedding)
         IN  /\ useMockEmbedding' = res.flag
             /\ quotaSeen' = (quotaSeen \/ (c.caught /\ CarriesQuotaSignal(c.error)))
             /\ Advance(r, AfterEmbed([StepEvent("embed", r) EXCEPT
                                          !.embedErr = IF c.caught THEN c.error ELSE NoError],
                                      res))
    /\ UNCHANGED componentVars

\* index.query settles.
SearchReturn(r) ==
    /\ pc[r] = "awaitSearch"
    /\ \E out \in SearchOutcomes :
         Advance(r, AfterSearch(StepEvent("search", r), out, query[r]))
    /\ UNCHANGED <<useMockEmbedding, quotaSeen, componentVars>>

\* The answer-generation call settles.
GenerateReturn(r) ==
    /\ pc[r] = "awaitGenerate"
    /\ \E out \in GenerateOutcomes :
         Advance(r, AfterGenerate(StepEvent("generate", r), out))
    /\ UNCHANGED <<useMockEmbedding, quotaSeen, componentVars>>

Next ==
    \E r \in Requests :
        \/ Receive(r)
        \/ ClassifyReturn(r)
        \/ EmbedReturn(r)
        \/ SearchReturn(r)
        \/ GenerateReturn(r)

Spec == Init /\ [][Next]_vars

\* The pending external call of request r settles (returns or throws).
Settle(r) ==
    ClassifyReturn(r) \/ EmbedReturn(r) \/ SearchReturn(r) \/ GenerateReturn(r)

\* The requests followed to their end, each external call of which
\* eventually returns or throws; requests arrive freely.
FairRequests == 1..MaxFair

FairNext == \E r \in FairRequests : Receive(r) \/ Settle(r)

FairSpec == Init /\ [][FairNext]_vars /\ \A r \in FairRequests : WF_vars(Settle(r))

(***************************************************************************)
(* The business lookups on their own: processQuery hands the classifier's  *)
(* details (for a product, possibly the query text) to getOrderStatus or   *)
(* getProductInfo, which read nothing but their argument.  The state keeps *)
(* the last two calls.                                                     *)
(***************************************************************************)
Call(fn, arg, result) == [fn |-> fn, arg |-> arg, result |-> result]

LookupOrder ==
    /\ \E orderId \in OrderIds :
         lookup' = [prev |-> lookup.last,
                    last |-> Call("getOrderStatus", orderId,
                                  OrderLookup(Str(orderId)).answer)]
    /\ UNCHANGED <<routerVars, selection, ingest, ui>>

LookupProduct ==
    /\ \E productIdentifier \in ProductNames :
         lookup' = [prev |-> lookup.last,
                    last |-> Call("getProductInfo", productIdentifier,
                                  ProductLookup(Str(productIdentifier)).answer)]
    /\ UNCHANGED <<routerVars, selection, ingest, ui>>

LookupNext == LookupOrder \/ LookupProduct

LookupSpec == Init /\ [][LookupNext]_vars

(***************************************************************************)
(* The Context Selector on its own: step 3 of queryPinecone applied once   *)
(* to a query and a ranked match list.                                     *)
(***************************************************************************)
Select ==
    /\ ~selection.done
    /\ \E q \in SelectorQueries, matches \in RankedLists :
         selection' = [done |-> TRUE, query |-> q, matches |-> matches,
                       threw |-> SelectThrows(matches),
                       contextChunks |-> IF SelectThrows(matches) THEN <<>>
                                         ELSE SelectContext(q, matches)]
    /\ UNCHANGED <<routerVars, lookup, ingest, ui>>

SelectorNext == Select

SelectorSpec == Init /\ [][SelectorNext]_vars

(***************************************************************************)
(* The ingestion script on its own: ingestData from its first statement to *)
(* its last, one action per settled await.  The vector store and the       *)
(* embedding provider are the environment: every call may resolve or       *)
(* reject, createIndex rejects with 409 Conflict while an index of that    *)
(* name exists, and a deletion that resolved may still be under way when   *)
(* the wait after it ends.                                                 *)
(***************************************************************************)
IndexDimensions == {EMBEDDING_DIMENSION, 1536}
IndexStates == {Absent} \cup IndexDimensions
DeleteOutcomes == {"deleted", "terminating", "rejected"}
LoadOutcomes ==
    {[threw |-> TRUE, records |-> 0]}
    \cup {[threw |-> FALSE, records |-> n] : n \in 0..MaxRecords}
IngestEmbedOutcomes == {"values", "empty", "quota", "error"}

IngestOp(name, dimension) == [name |-> name, dimension |-> dimension]

\* st after the call op has been made.
Called(st, op) == [st EXCEPT !.ops = Append(@, op)]

\* catch (error) of ingestData: logged, nothing else.
IngestCaught(st) == [st EXCEPT !.pc = "done", !.caught = TRUE]

\* generateGoogleEmbedding(textToEmbed) for record i: with the flag set no
\* call is made, otherwise embedContent is called.
CallEmbedding(st, i) ==
    LET at == [st EXCEPT !.pc = "embed", !.next = i]
    IN  IF st.useMockEmbedding THEN at
        ELSE Called(at, IngestOp("embedContent", 0))

\* index.upsert(vectors)
CallUpsert(st) == Called([st EXCEPT !.pc = "upsert"], IngestOp("upsert", 0))

\* Record i of the data file.
FaqRecord(i) ==
    [ id |-> "faq-" \o ToString(i), doc_id |-> "doc-" \o ToString(i),
      question |-> "question " \o ToString(i), answer |-> "answer " \o ToString(i) ]

\* { id: record.id, values: vector, metadata: { id, doc_id, question, answer } }
IngestVector(record, synthetic) ==
    [ id |-> record.id,
      values |-> [len |-> EMBEDDING_DIMENSION, synthetic |-> synthetic],
      metadata |-> [id |-> record.id, doc_id |-> record.doc_id,
                    question |-> record.question, answer |-> record.answer] ]

AfterVectorUpsertsEach(st, synthetic) ==
    CallUpsert([st EXCEPT !.vectors =
                    Append(@, IngestVector(FaqRecord(st.next), synthetic))])

\* vectors.push({id: record.id, values: vector, ...}) and the next turn of the
\* loop, or the upsert after the last record.
AfterVector(st, synthetic) ==
    LET pushed == [st EXCEPT !.vectors =
                       Append(@, IngestVector(FaqRecord(st.next), synthetic))]
    IN  IF st.next = st.records THEN CallUpsert(pushed)
        ELSE CallEmbedding(pushed, st.next + 1)

\* From pc.index(indexName) on: the index preparation is over, the records
\* are read and parsed (which may throw) and the first embedding is asked
\* for; with no record the empty list is upserted.
AfterPreparation(st, loaded) ==
    LET ready == [st EXCEPT !.prepared = TRUE]
    IN  IF loaded.threw THEN IngestCaught(ready)
        ELSE IF loaded.records = 0 THEN CallUpsert([ready EXCEPT !.records = 0])
        ELSE CallEmbedding([ready EXCEPT !.records = loaded.records], 1)

\* pc.createIndex({name, dimension: EMBEDDING_DIMENSION, ...})
CallCreate(st) ==
    Called([st EXCEPT !.pc = "create"], IngestOp("createIndex", EMBEDDING_DIMENSION))

\* currentDimension === EMBEDDING_DIMENSION leaves the index as it is.
NeedsRecreationAlways(currentDimension) == TRUE

NeedsRecreation(currentDimension) == currentDimension # EMBEDDING_DIMENSION

\* await pc.listIndexes() settles; the index is absent or has one of the
\* dimensions.
ListIndexes ==
    /\ ingest.pc = "start"
    /\ \E d \in IndexStates, resolves \in BOOLEAN :
         LET called == Called([ingest EXCEPT !.indexDimension = d,
                                             !.indexAtStart = d],
                              IngestOp("listIndexes", 0))
             found == [called EXCEPT !.existingIndexInfo = (d # Absent),
                                     !.indexNeedsCreation = TRUE]
         IN  ingest' =
               IF ~resolves THEN IngestCaught(called)
               ELSE IF found.existingIndexInfo
                    THEN Called([found EXCEPT !.pc = "describe"],
                                IngestOp("describeIndex", 0))
                    ELSE CallCreate(found)
    /\ UNCHANGED <<routerVars, lookup, selection, ui>>

\* await pc.describeIndex(indexName) settles.
DescribeSettle ==
    /\ ingest.pc = "describe"
    /\ \E resolves \in BOOLEAN, loaded \in LoadOutcomes :
         ingest' =
           IF resolves
           THEN LET st == [ingest EXCEPT !.described = "resolved",
                                         !.currentDimension = ingest.indexDimension]
                IN  IF NeedsRecreation(st.currentDimension)
                    THEN Called([st EXCEPT !.pc = "delete"],
                                IngestOp("deleteIndex", 0))
                    ELSE AfterPreparation([st EXCEPT !.indexNeedsCreation = FALSE],
                                          loaded)
           ELSE Called([ingest EXCEPT !.described = "rejected",
                                      !.indexNeedsCreation = TRUE,
                                      !.pc = "redelete"],
                       IngestOp("deleteIndex", 0))
    /\ UNCHANGED <<routerVars, lookup, selection, ui>>

\* await pc.deleteIndex(indexName) of the mismatch branch settles: after the
\* wait the index is created; a rejection is caught by the handler of the
\* describe failure, which deletes again.
DeleteSettle ==
    /\ ingest.pc = "delete"
    /\ \E o \in DeleteOutcomes :
         ingest' =
           CASE o = "deleted" -> CallCreate([ingest EXCEPT !.indexDimension = Absent])
             [] o = "terminating" -> CallCreate(ingest)
             [] o = "rejected" ->
                  Called([ingest EXCEPT !.indexNeedsCreation = TRUE,
                                        !.pc = "redelete"],
                         IngestOp("deleteIndex", 0))
    /\ UNCHANGED <<routerVars, lookup, selection, ui>>

\* await pc.deleteIndex(indexName) of the error handler settles; its
\* rejection is logged and the index is created all the same.
RedeleteSettle ==
    /\ ingest.pc = "redelete"
    /\ \E o \in DeleteOutcomes :
         ingest' =
           IF o = "deleted" THEN CallCreate([ingest EXCEPT !.indexDimension = Absent])
           ELSE CallCreate(ingest)
    /\ UNCHANGED <<routerVars, lookup, selection, ui>>

\* await pc.createIndex(...) settles.
CreateSettle ==
    /\ ingest.pc = "create"
    /\ \E resolves \in BOOLEAN, loaded \in LoadOutcomes :
         ingest' =
           IF resolves /\ ingest.indexDimension = Absent
           THEN AfterPreparation(
                    [ingest EXCEPT !.indexDimension = EMBEDDING_DIMENSION], loaded)
           ELSE IngestCaught(ingest)
    /\ UNCHANGED <<routerVars, lookup, selection, ui>>

\* await generateGoogleEmbedding(textToEmbed) settles for record next.
EmbedRecordSettle ==
    /\ ingest.pc = "embed"
    /\ \E o \in IngestEmbedOutcomes :
         ingest' =
           IF ingest.useMockEmbedding THEN AfterVector(ingest, TRUE)
           ELSE CASE o = "values" -> AfterVector(ingest, FALSE)
                  [] o = "quota" ->
                       AfterVector([ingest EXCEPT !.useMockEmbedding = TRUE,
                                                  !.quotaAt = ingest.next], TRUE)
                  [] OTHER -> IngestCaught(ingest)
    /\ UNCHANGED <<routerVars, lookup, selection, ui>>

\* await index.upsert(vectors) settles.
UpsertSettle ==
    /\ ingest.pc = "upsert"
    /\ \E resolves \in BOOLEAN :
         ingest' = IF resolves
                   THEN [ingest EXCEPT !.pc = "done", !.upserted = TRUE,
                                       !.stored = ingest.vectors]
                   ELSE IngestCaught(ingest)
    /\ UNCHANGED <<routerVars, lookup, selection, ui>>

IngestNext ==
    \/ ListIndexes
    \/ DescribeSettle
    \/ DeleteSettle
    \/ RedeleteSettle
    \/ CreateSettle
    \/ EmbedRecordSettle
    \/ UpsertSettle

IngestSpec == Init /\ [][IngestNext]_vars

(***************************************************************************)
(* The chat UI on its own (frontend/src/App.tsx, processUserQuery): a call *)
(* with a text, and the settling of the request a call has posted.  The    *)
(* backend and the browser's speech synthesis are the environment: the     *)
(* request resolves with an answer or rejects, and speak() returns or, in  *)
(* a browser without speech synthesis, throws.  Calls may overlap: speech  *)
(* recognition calls processUserQuery whatever isTyping is.                *)
(***************************************************************************)
ChatTexts ==
    { "", "   ", "Where is my order ABC1234?", "What's your return policy?" }

BackendAnswers ==
    { NoMatchAnswer,
      "The status for your order **ABC1234** is currently **Delivered**. It was successfully delivered on September 28th." }

AxiosOutcomes ==
    { [resolved |-> TRUE, answer |-> a] : a \in BackendAnswers }
    \cup { [resolved |-> FALSE, answer |-> ""] }

ConnectionErrorMessage ==
    "Sorry, I'm having trouble connecting to my knowledge base. Please ensure the backend server is running."

ChatMessage(role, text, sources) == [role |-> role, text |-> text, sources |-> sources]

\* The title of the citation attached to an answer that came without
\* sources, chosen by keyword of the query.
MockCitation(queryText) ==
    LET q == ToLowerCase(queryText)
    IN  IF Includes(q, "order") THEN "Order Tracking System v2.1"
        ELSE IF Includes(q, "return") THEN "Customer Returns & Refunds Policy"
        ELSE IF Includes(q, "product") \/ Includes(q, "details")
             THEN "Detailed Product Specifications for SKU-42"
        ELSE "Company General FAQ"

RemoveAt(q, i) == SubSeq(q, 1, i - 1) \o SubSeq(q, i + 1, Len(q))

\* The catch block of processUserQuery: the fixed message is appended and
\* spoken; an exception of speak leaves the function after finally.
ChatCatch(messages, spoken, ttsThrows) ==
    [ messages |-> Append(messages, ChatMessage("bot", ConnectionErrorMessage, "")),
      spoken |-> spoken + 1, raised |-> ttsThrows ]

\* processUserQuery from the settling of axios.post to its end, try, catch
\* and finally: the new message list, the number of speak calls and whether
\* an exception left the function.
AfterPost(messages, queryText, out, ttsThrows) ==
    IF out.resolved
    THEN LET answered == Append(messages,
                                ChatMessage("bot", out.answer, MockCitation(queryText)))
         IN  IF ttsThrows THEN ChatCatch(answered, 1, ttsThrows)
             ELSE [messages |-> answered, spoken |-> 1, raised |-> FALSE]
    ELSE ChatCatch(messages, 0, ttsThrows)

\* processUserQuery(queryText) up to its await: nothing for a blank text,
\* otherwise the user message, the typing indicator and the request.
ProcessUserQuery ==
    /\ \E queryText \in ChatTexts :
         IF Trim(queryText) = ""
         THEN ui' = [ui EXCEPT !.last = [NoChatStep EXCEPT !.op = "call",
                                                           !.queryText = queryText]]
         ELSE /\ ui.posted < MaxChats
              /\ ui' = [ui EXCEPT
                          !.messages = Append(@, ChatMessage("user", queryText, "")),
                          !.isTyping = TRUE,
                          !.pending = Append(@, queryText),
                          !.posted = @ + 1,
                          !.last = [NoChatStep EXCEPT !.op = "call",
                                                      !.queryText = queryText]]
    /\ UNCHANGED <<routerVars, lookup, selection, ingest>>

\* The request of a waiting call settles.
PostSettle ==
    /\ \E i \in 1..Len(ui.pending), out \in AxiosOutcomes, ttsThrows \in BOOLEAN :
         LET res == AfterPost(ui.messages, ui.pending[i], out, ttsThrows)
         IN  ui' = [ui EXCEPT
                      !.messages = res.messages,
                      !.isTyping = FALSE,
                      !.pending = RemoveAt(@, i),
                      !.last = [op |-> "settle", queryText |-> ui.pending[i],
                                resolved |-> out.resolved, answer |-> out.answer,
                                spoken |-> res.spoken, raised |-> res.raised]]
    /\ UNCHANGED <<routerVars, lookup, selection, ingest>>

UiNext == ProcessUserQuery \/ PostSettle

UiSpec == Init /\ [][UiNext]_vars


(***************************************************************************)
(* Properties.                                                             *)
(***************************************************************************)
Range(q) == { q[i] : i \in 1..Len(q) }

\* The last step belonged to a request on the RAG path.
OnRagPath ==
    \/ event.op \in { "embed", "search", "generate" }
    \/ event.op = "classify" /\ event.route = "rag"

SyntheticVector(v) == v.synthetic /\ v.len = EMBEDDING_DIMENSION

C2_FallbackOnRagFailure ==
    (event.finished /\ event.threw /\ OnRagPath) =>
        /\ event.fallbackCalled
        /\ event.response.answer # ""
        /\ Includes(event.response.answer, FallbackMarker)
        /\ event.response # ApologyResponse

\* C3: the intent of every response of processQuery is one of General, RAG,
\* Order_Status, Product_Info.
C3_IntentEnumerated ==
    event.finished => event.response.intent \in Intents

C3_Witness ==
    /\ event.finished /\ event.op = "classify" /\ event.route = "general"
    /\ event.intentResult.intent = Str("Chitchat")
    /\ event.response.intent = "General"

\* C4: the answer of every response of processQuery is a non-empty string.
C4_AnswerNeverEmpty ==
    event.finished => event.response.answer # ""

\* C5: the degradation flag starts false and no step turns it from true to
\* false.
C5_FlagMonotonic ==
    /\ ~useMockEmbedding
    /\ [][useMockEmbedding => useMockEmbedding']_vars

C5_Witness ==
    /\ useMockEmbedding
    /\ event.op = "classify" /\ event.embedCalled /\ ~event.providerContacted

\* C6: once a quota signal has been observed, an embedding call that starts
\* returns, in the same step, a synthetic vector of EMBEDDING_DIMENSION
\* entries and does not contact the provider, for every query text.
C6_DegradedCallsAreSynthetic ==
    [][(quotaSeen /\ event'.embedCalled) =>
          /\ event'.embedSettled
          /\ SyntheticVector(event'.vector)
          /\ ~event'.providerContacted
          /\ "embedContent" \notin Range(event'.calls)]_vars

C6_Witness ==
    /\ quotaSeen /\ event.embedCalled /\ event.embedSettled
    /\ event.vector = MockVector
    /\ event.query = "Tell me about Monitor X"

\* C7: a provider failure that carries a quota signal (status 429, or a
\* message containing "Quota exceeded"), met while the flag is false, sets
\* the flag, and the call that met it returns a synthetic vector of
\* EMBEDDING_DIMENSION entries instead of throwing.
C7_QuotaSignalDegrades ==
    [][(~useMockEmbedding /\ event'.op = "embed" /\ CarriesQuotaSignal(event'.embedErr)) =>
          /\ useMockEmbedding'
          /\ ~event'.embedThrew /\ ~event'.threw
          /\ SyntheticVector(event'.vector)]_vars

C7_Witness ==
    /\ event.op = "embed"
    /\ event.embedErr = Err(Undefined, "Quota exceeded for metric: embed_content_requests")
    /\ useMockEmbedding /\ event.vector = MockVector /\ ~event.finished

\* C8: a provider failure that is not a quota signal, the adapter's own
\* empty-result error included, leaves generateGoogleEmbedding as that same
\* error, and the step leaves the flag as it was.
C8_OtherErrorsPropagate ==
    [][(event'.op = "embed" /\ event'.embedErr # NoError
            /\ ~CarriesQuotaSignal(event'.embedErr)) =>
          /\ event'.embedThrew
          /\ event'.caught = event'.embedErr
          /\ useMockEmbedding' = useMockEmbedding]_vars

C8_Witness ==
    /\ event.op = "embed" /\ event.embedErr = EmptyResultError
    /\ event.embedThrew /\ event.caught = EmptyResultError
    /\ ~useMockEmbedding

\* C9: with requests interleaved at every await, the flag is true exactly
\* when some call has met a quota signal, it never goes back to false, every
\* embedding call that settles yields a vector of EMBEDDING_DIMENSION entries
\* or throws the non-quota error it met, and a call that starts while the
\* flag is set does not contact the provider.
C9_ConcurrentCallsRaceHarmlessly ==
    /\ [](useMockEmbedding <=> quotaSeen)
    /\ [][useMockEmbedding => useMockEmbedding']_vars
    /\ [][event'.embedSettled =>
            \/ ~event'.embedThrew /\ event'.vector.len = EMBEDDING_DIMENSION
            \/ /\ event'.embedThrew /\ event'.caught = event'.embedErr
               /\ ~CarriesQuotaSignal(event'.caught)]_vars
    /\ [][(useMockEmbedding /\ event'.embedCalled) => ~event'.providerContacted]_vars

\* A call that started while the flag was false settles with the provider's
\* vector after another request has set the flag.
C9_Witness ==
    /\ useMockEmbedding /\ quotaSeen
    /\ event.op = "embed" /\ event.embedSettled /\ event.vector = ProviderVector
    /\ \E r \in Requests : r # event.req /\ pc[r] = "awaitSearch"

\* C10: when the classification call rejects, answers without text or
\* answers with text that is not JSON, determineIntent returns intent RAG
\* with empty details, nothing is thrown, and the request goes on into the
\* RAG pipeline instead of ending with an error response.
C10_ClassificationFailsOpen ==
    (event.op = "classify" /\ event.clsKind \in { "reject", "notext", "badjson" }) =>
        /\ event.intentResult = [intent |-> Str("RAG"), details |-> Str("")]
        /\ event.route = "rag"
        /\ ~event.threw /\ ~event.finished
        /\ event.embedCalled
        /\ pc[event.req] \in { "awaitEmbed", "awaitSearch" }

C10_Witness ==
    /\ event.op = "classify" /\ event.clsKind = "badjson"
    /\ event.intentResult.intent = Str("RAG")
    /\ pc[event.req] = "awaitEmbed"

\* C11: when the classification call answers with JSON that parses to an
\* object without the intent field, determineIntent returns intent RAG with
\* empty details, and processQuery goes into the RAG pipeline instead of
\* answering with intent General.
C11_MissingIntentFailsOpen ==
    (event.op = "classify" /\ event.clsKind = "object" /\ event.clsIntent = Undefined) =>
        /\ event.intentResult = [intent |-> Str("RAG"), details |-> Str("")]
        /\ event.route = "rag"
        /\ ~(event.finished /\ event.response.intent = "General")

\* C12: whatever the classification call answers, the intent determineIntent
\* returns is one of RAG, Order_Status, Product_Info (never General, never
\* another value).
C12_ClassifierIntentEnumerated ==
    event.op = "classify" =>
        event.intentResult.intent \in { Str("RAG"), Str("Order_Status"), Str("Product_Info") }

\* C13: processQuery calls getOrderStatus exactly when determineIntent
\* returned intent Order_Status with details a non-empty string other than
\* "None" and "General", and it then returns
\* {answer: getOrderStatus(details), intent: Order_Status}.
C13_OrderLookupRouting ==
    event.op = "classify" =>
        LET d == event.intentResult.details
            isOrderKey == /\ event.intentResult.intent = Str("Order_Status")
                          /\ IsStr(d)
                          /\ d.s \notin { "", "None", "General" }
        IN  /\ ("getOrderStatus" \in Range(event.calls)) <=> isOrderKey
            /\ isOrderKey =>
                 /\ event.finished
                 /\ event.response = BotResponse(OrderStatusTable[d.s], "Order_Status")

\* C14: processQuery calls getProductInfo exactly when the order branch was
\* not taken and determineIntent returned intent Product_Info with details
\* other than "General"; the key is details when details is non-empty and
\* not "None", the raw query otherwise, and the response is
\* {answer: getProductInfo(key), intent: Product_Info}.
C14_ProductLookupRouting ==
    event.op = "classify" =>
        LET d == event.intentResult.details
            orderFired == "getOrderStatus" \in Range(event.calls)
            isProduct == /\ ~orderFired
                         /\ event.intentResult.intent = Str("Product_Info")
                         /\ d # Str("General")
            key == IF d \notin { Undefined, Str(""), Str("None") } THEN d
                   ELSE Str(event.query)
        IN  /\ ("getProductInfo" \in Range(event.calls)) <=> isProduct
            /\ isProduct =>
                 /\ event.finished
                 /\ IsStr(key)
                 /\ event.response = BotResponse(ProductInfoTable[key.s], "Product_Info")

\* The classifications the claim C15 names: RAG, Order_Status with empty or
\* "None" details, Product_Info with details "General".
FailsTowardRag(di) ==
    \/ di.intent = Str("RAG")
    \/ di.intent = Str("Order_Status") /\ di.details \in { Str(""), Str("None") }
    \/ di.intent = Str("Product_Info") /\ di.details = Str("General")

\* C15: when determineIntent returns RAG, or Order_Status with empty or
\* "None" details, or Product_Info with details "General", processQuery
\* calls queryPinecone with the original query text and no lookup; and
\* whenever queryPinecone returns, the response is
\* {answer: what it returned, intent: RAG}.
C15_FailTowardRag ==
    /\ (event.op = "classify" /\ FailsTowardRag(event.intentResult)) =>
          /\ event.route = "rag"
          /\ "queryPinecone" \in Range(event.calls)
          /\ event.ragArg = Str(event.query)
          /\ "getOrderStatus" \notin Range(event.calls)
          /\ "getProductInfo" \notin Range(event.calls)
          /\ ~event.finished
    /\ (event.op \in { "search", "generate" } /\ event.finished /\ ~event.threw) =>
          /\ IsStr(event.ragAnswer)
          /\ event.response = [answer |-> event.ragAnswer.s, intent |-> "RAG"]

\* An order question without an id goes to the knowledge base with the
\* query text.
C15_Witness ==
    /\ event.op = "classify"
    /\ event.intentResult = [intent |-> Str("Order_Status"), details |-> Str("None")]
    /\ event.route = "rag"
    /\ event.ragArg = Str("Tell me about Monitor X")
    /\ pc[event.req] = "awaitEmbed"

\* C16: when determineIntent returns an intent that is none of RAG,
\* Order_Status, Product_Info, processQuery returns the clarification request
\* with intent General, and calls neither getOrderStatus, getProductInfo nor
\* queryPinecone.
C16_UnknownIntentAsksToRephrase ==
    (event.op = "classify"
        /\ event.intentResult.intent
              \notin { Str("RAG"), Str("Order_Status"), Str("Product_Info") }) =>
        /\ event.finished /\ ~event.threw
        /\ event.response =
              [answer |-> "I'm sorry, I couldn't understand your request. Could you please rephrase it?",
               intent |-> "General"]
        /\ event.calls = <<"classify">>
        /\ ~event.embedCalled

C16_Witness ==
    /\ event.op = "classify" /\ event.clsKind = "object"
    /\ event.intentResult = [intent |-> Undefined, details |-> Str("ABC1234")]
    /\ event.finished /\ event.response.intent = "General"
    /\ event.calls = <<"classify">>

(***************************************************************************)
(* Properties of the business lookups (LookupSpec).                        *)
(***************************************************************************)
\* The statuses a message of getOrderStatus reports.
ReportedStatuses(message) ==
    { st \in { "Shipped", "Processing", "Delivered", "Cancelled" } :
        Includes(message, "is currently **" \o st \o "**.") }

\* The hash of the id modulo 3 (0, 1 or 2 also for a negative hash).
HashMod3(orderId) ==
    LET hash == OrderHash(orderId) IN (hash.hi + hash.lo) % 3   \* 65536 % 3 = 1

\* The JavaScript remainder hash % 3, which has the sign of the hash.
HashRem3(orderId) ==
    IF OrderHash(orderId).hi < 0 /\ HashMod3(orderId) # 0
    THEN HashMod3(orderId) - 3
    ELSE HashMod3(orderId)

\* C18 (as claimed): for every order id getOrderStatus reports exactly one
\* status, the one given by the id's hash modulo 3: 0 Shipped, 1 Processing,
\* 2 Delivered.
C18_StatusByHashMod3 ==
    lookup.last.fn = "getOrderStatus" =>
        ReportedStatuses(lookup.last.result) =
            { CASE HashMod3(lookup.last.arg) = 0 -> "Shipped"
                [] HashMod3(lookup.last.arg) = 1 -> "Processing"
                [] OTHER -> "Delivered" }

\* C18 (amended): for every order id getOrderStatus reports exactly one
\* status, given by the JavaScript remainder hash % 3: 0 Shipped,
\* 1 Processing, and Delivered for every other remainder (2, and -1 or -2
\* when the hash is negative); never Cancelled.
C18_StatusByHashRemainder ==
    lookup.last.fn = "getOrderStatus" =>
        /\ ReportedStatuses(lookup.last.result) =
              { CASE HashRem3(lookup.last.arg) = 0 -> "Shipped"
                  [] HashRem3(lookup.last.arg) = 1 -> "Processing"
                  [] OTHER -> "Delivered" }
        /\ "Cancelled" \notin ReportedStatuses(lookup.last.result)

\* An id whose hash is negative and congruent to 1 modulo 3 is Delivered.
C18_Witness ==
    /\ lookup.last.fn = "getOrderStatus" /\ lookup.last.arg = "ORD77777"
    /\ OrderHash("ORD77777").hi < 0 /\ HashMod3("ORD77777") = 1
    /\ ReportedStatuses(lookup.last.result) = { "Delivered" }

\* A lookup key trimmed and case-normalized.
Normalized(s) == ToLowerCase(Trim(s))

\* The text getProductInfo returns for the product of a catalog key.
ProductText(key) ==
    productData(key).name \o " details: " \o productData(key).details
        \o " Current Availability: " \o productData(key).availability

\* The catalog keys whose product a message of getProductInfo describes
\* (none for the not-found message).
ReportedProducts(message) ==
    { i \in 1..Len(productKeys) : message = ProductText(productKeys[i]) }

\* C19: two order ids, or two product names, that differ only in letter case
\* or surrounding whitespace give the same lookup result: the same order
\* status, the same product.
C19_LookupKeysNormalized ==
    (/\ lookup.prev.fn = lookup.last.fn
     /\ Normalized(lookup.prev.arg) = Normalized(lookup.last.arg)) =>
        CASE lookup.last.fn = "getOrderStatus" ->
               ReportedStatuses(lookup.prev.result) = ReportedStatuses(lookup.last.result)
          [] lookup.last.fn = "getProductInfo" ->
               ReportedProducts(lookup.prev.result) = ReportedProducts(lookup.last.result)
          [] OTHER -> TRUE

C21_AtMostThreeChunks ==
    selection.done => Len(selection.contextChunks) <= 3

\* Four matches that all pass the filter give three chunks.
C21_Witness ==
    /\ selection.done /\ ~selection.threw
    /\ Len(selection.matches) = 4
    /\ ~IsReturnQuery(selection.query)
    /\ Len(selection.contextChunks) = 3

\* C22: whenever index.query returns a non-empty match list, for every query
\* (those containing "return" included), at least one context chunk is
\* selected and the answer is not the 'no strong matches' text.
C22_NoChunksOnlyWithoutMatches ==
    (event.op = "search" /\ event.searchKind = "matches"
        /\ event.matchCount > 0 /\ ~event.threw) =>
        /\ Len(event.chunks) > 0
        /\ ~(event.finished /\ event.response.answer = NoMatchAnswer)

\* The records the keyword/document filter keeps: those of "Returns Policy"
\* for a query containing "return", every record otherwise.
PassesFilter(q, matches) ==
    LET Keep(m) == IsReturnQuery(q) => m.doc_id = "Returns Policy"
    IN  SelectSeq(matches, Keep)

\* The first min(3, n) entries of a list.
TopThree(q) == SubSeq(q, 1, IF Len(q) < 3 THEN Len(q) ELSE 3)

\* C23: for every query, when the filter keeps no record of a non-empty
\* match list, the selected chunks are those of the unfiltered first three
\* matches, in ranking order.
C23_FallbackToUnfilteredTopThree ==
    (/\ selection.done /\ ~selection.threw
     /\ Len(selection.matches) > 0
     /\ PassesFilter(selection.query, selection.matches) = <<>>) =>
        selection.contextChunks = FormatAll(TopThree(selection.matches))

\* C24: when index.query returns an empty match list, queryPinecone returns
\* the canned 'No strong matches' text without calling the generation model,
\* and processQuery returns it as an answer with intent RAG, not as an error.
C24_NoMatchIsAnAnswer ==
    (event.op = "search" /\ event.searchKind = "matches" /\ event.matchCount = 0) =>
        /\ event.finished /\ ~event.threw
        /\ event.response =
              [answer |-> "No strong matches were found for your query in the knowledge base.",
               intent |-> "RAG"]
        /\ "generateContent" \notin Range(event.calls)
        /\ pc[event.req] = "idle"

C24_Witness ==
    /\ event.op = "search" /\ event.searchKind = "matches" /\ event.matchCount = 0
    /\ event.finished /\ event.response.answer = NoMatchAnswer
    /\ event.response.intent = "RAG"
    /\ event.calls = <<"classify", "queryPinecone", "generateGoogleEmbedding",
                       "embedContent", "index.query">>

\* The matches of the "Returns Policy" document, in ranking order.
ReturnsPolicyMatches(matches) ==
    LET FromPolicy(m) == m.doc_id = "Returns Policy"
    IN  SelectSeq(matches, FromPolicy)

\* C25: when the query contains "return" in any letter case and some matches
\* are records of the "Returns Policy" document, the selected chunks are
\* those of the first (up to three) matches of that document, in ranking
\* order, and of no other document; when the query does not contain
\* "return", the selected chunks are those of the first min(3, n) matches,
\* in ranking order.
C25_SelectionPolicy ==
    (selection.done /\ ~selection.threw) =>
        LET isReturn == Includes(ToLowerCase(selection.query), "return")
            policy == ReturnsPolicyMatches(selection.matches)
        IN  /\ (isReturn /\ policy # <<>>) =>
                  selection.contextChunks = FormatAll(TopThree(policy))
            /\ ~isReturn =>
                  selection.contextChunks = FormatAll(TopThree(selection.matches))

\* An upper-case RETURN query whose matches mix two documents.
C25_Witness ==
    /\ selection.done /\ ~selection.threw
    /\ selection.query = "How do I RETURN an item?"
    /\ selection.matches =
          << Match("Shipping FAQ", "Standard shipping takes 3-5 business days."),
             Match("Returns Policy", "Refunds are issued within 5 business days."),
             Match("Returns Policy", "Items can be returned within 30 days.") >>
    /\ selection.contextChunks =
          << "Context: Refunds are issued within 5 business days. (Source: Returns Policy doc)",
             "Context: Items can be returned within 30 days. (Source: Returns Policy doc)" >>

\* How many times a request has made the call `name`.
CallCount(callLog, name) ==
    Cardinality({ i \in 1..Len(callLog) : callLog[i] = name })

\* C26: in a RAG request with at least one selected chunk the generation
\* model is called exactly once, with the original query as the user
\* message; when that call answers without text, queryPinecone throws
\* instead of returning an answer.
C26_GenerationCalledOnce ==
    /\ (event.op = "search" /\ ~event.threw /\ Len(event.chunks) > 0) =>
          /\ CallCount(event.calls, "generateContent") = 1
          /\ event.genMessage = Str(event.query)
          /\ pc[event.req] = "awaitGenerate"
          /\ query[event.req] = event.query
    /\ event.op = "generate" =>
          /\ CallCount(event.calls, "generateContent") = 1
          /\ event.finished
    /\ (event.op = "generate" /\ event.genKind = "notext") =>
          /\ event.threw
          /\ event.caught = Err(Undefined, "Gemini API failed to generate text content.")
          /\ event.ragAnswer = Undefined

C26_Witness ==
    /\ event.op = "generate" /\ event.genKind = "notext"
    /\ event.threw /\ event.caught = GenerationFailedError
    /\ CallCount(event.calls, "generateContent") = 1
    /\ event.query = "What's your return policy?"

(***************************************************************************)
(* Properties of the HTTP boundary (Spec).                                 *)
(***************************************************************************)
\* C27: a request whose query is missing, is not a string or is the empty
\* string is answered with status 400 and {error: "Query parameter is
\* required."}, and processQuery is not called for it (no call to any
\* service is made).
C27_InvalidQueryIs400 ==
    (event.op = "receive"
        /\ (event.httpQuery = Undefined \/ ~IsStr(event.httpQuery)
               \/ event.httpQuery = Str(""))) =>
        /\ event.http.status = 400
        /\ event.http.json = "error"
        /\ event.http.error = "Query parameter is required."
        /\ event.calls = <<>>
        /\ pc[event.req] = "idle" /\ calls[event.req] = <<>>

C27_Witness ==
    /\ event.op = "receive" /\ event.httpQuery = Num(42)
    /\ event.http.status = 400
    /\ \E r \in Requests : pc[r] = "awaitGenerate"

\* C28: a request whose query is a non-empty string gets exactly one
\* response, sent in the step in which processQuery settles: 200 with the
\* BotResponse whenever processQuery returns, also when a service threw, and
\* 500 with an error object only when processQuery itself throws.
C28_OneResponsePerRequest ==
    /\ (event.op = "receive" /\ IsStr(event.httpQuery) /\ event.httpQuery # Str("")) =>
          /\ event.http.status = 0
          /\ pc[event.req] = "awaitClassify"
    /\ (event.op \in { "classify", "embed", "search", "generate" } /\ ~event.finished) =>
          /\ event.http.status = 0
          /\ pc[event.req] # "idle"
    /\ event.finished =>
          /\ pc[event.req] = "idle"
          /\ event.http.status \in { 200, 500 }
          /\ ~event.escaped =>
                /\ event.http.status = 200 /\ event.http.json = "response"
                /\ event.http.response = event.response
          /\ event.http.status = 500 =>
                event.escaped /\ event.http.json = "error"
    /\ (event.finished /\ event.threw /\ ~event.escaped) => event.http.status = 200

\* The embedding provider fails; the request is still answered with 200.
C28_Witness ==
    /\ event.op = "embed" /\ event.finished /\ event.threw
    /\ event.http.status = 200
    /\ event.http.response = ApologyResponse

\* C29: provided every external call eventually returns or throws, every
\* call of processQuery eventually returns a BotResponse (no exception
\* escapes, the handler answers), and no request makes the same call twice.
C29_EveryRequestCompletes ==
    /\ [](\A r \in FairRequests :
            \A i, j \in 1..Len(calls[r]) : calls[r][i] = calls[r][j] => i = j)
    /\ \A r \in FairRequests :
          (pc[r] # "idle") ~>
              (/\ event.finished /\ event.req = r /\ pc[r] = "idle"
               /\ ~event.escaped
               /\ event.response.intent \in Intents
               /\ event.http.status = 200)

\* A request that has gone through the whole RAG pipeline ends with the
\* apology when the generation call fails.
C29_Witness ==
    /\ event.finished /\ event.op = "generate" /\ event.threw
    /\ event.response = ApologyResponse
    /\ pc[event.req] = "idle"

(***************************************************************************)
(* Ingestion: index preparation                                            *)
(***************************************************************************)
\* The positions in the call list of ingestData at which `name` was called.
OpPositions(name) == {i \in 1..Len(ingest.ops) : ingest.ops[i].name = name}

\* The index preparation of ingestData is still under way.
Preparing == ingest.pc \in {"start", "describe", "delete", "redelete", "create"}

\* C30: ingestData prepares the index so that its dimension is
\* EMBEDDING_DIMENSION = 768.  An index that is found and described with
\* dimension 768 is neither deleted nor created.  An index that is found with
\* another dimension, or whose description fails, has deleteIndex called at
\* once and, as soon as the deletion has settled, createIndex called.  An
\* index that is not listed has createIndex called and deleteIndex never.
\* Every createIndex call asks for dimension 768 and comes after every
\* deleteIndex call.  upsert is called only after the preparation is over,
\* after every call that prepares the index, and then the index has
\* dimension 768.
C30_IndexPreparedBeforeUpsert ==
    LET deleted == OpPositions("deleteIndex")
        created == OpPositions("createIndex")
        upserts == OpPositions("upsert")
        asIs == /\ ingest.existingIndexInfo
                /\ ingest.described = "resolved"
                /\ ingest.currentDimension = 768
        mismatch == /\ ingest.existingIndexInfo
                    /\ \/ ingest.described = "rejected"
                       \/ /\ ingest.described = "resolved"
                          /\ ingest.currentDimension # 768
        absent == ~ingest.existingIndexInfo /\ Len(ingest.ops) > 1
    IN  /\ asIs => deleted = {} /\ created = {}
        /\ mismatch => /\ deleted # {}
                       /\ ingest.pc \notin {"delete", "redelete"} => created # {}
        /\ absent => created # {} /\ deleted = {}
        /\ \A i \in created : ingest.ops[i].dimension = 768
        /\ \A i \in created, j \in deleted : j < i
        /\ upserts # {} => ~Preparing /\ ingest.prepared
        /\ \A u \in upserts, i \in deleted \cup created : i < u
        /\ ingest.prepared => ~Preparing /\ ingest.indexDimension = 768

\* An index of dimension 1536 was found, deleted and created again, and the
\* vectors were upserted into it.
C30_Witness ==
    /\ ingest.upserted
    /\ ingest.indexAtStart = 1536
    /\ ingest.described = "resolved"
    /\ OpPositions("deleteIndex") # {}
    /\ OpPositions("createIndex") # {}
    /\ ingest.indexDimension = 768

(***************************************************************************)
(* Order of the calls of one request                                       *)
(***************************************************************************)
IsPrefix(a, b) == Len(a) <= Len(b) /\ SubSeq(b, 1, Len(a)) = a

\* The longest call lists a request may make: the classification, then one
\* lookup, or the RAG pipeline with the embedding (from the provider or
\* not), the vector search and the generation, each once.
FullCallOrders ==
    { <<"classify", "getOrderStatus">>,
      <<"classify", "getProductInfo">>,
      <<"classify", "queryPinecone", "generateGoogleEmbedding", "embedContent",
        "index.query", "generateContent">>,
      <<"classify", "queryPinecone", "generateGoogleEmbedding",
        "index.query", "generateContent">> }

FixedOrder(callLog) == \E full \in FullCallOrders : IsPrefix(callLog, full)

\* C31: the calls of a request come in a fixed order, none repeated: the
\* classification first and once; then at most one of the order lookup, the
\* product lookup and the RAG pipeline; in the RAG pipeline the embedding is
\* asked for once, before the one vector search, which asks for topK = 8
\* matches and comes before the at most one generation call.
C31_FixedCallOrder ==
    /\ \A r \in Requests :
          /\ FixedOrder(calls[r])
          /\ pc[r] # "idle" => CallCount(calls[r], "classify") = 1
    /\ FixedOrder(event.calls)
    /\ event.op \in {"classify", "embed", "search", "generate"} =>
          /\ event.calls[1] = "classify"
          /\ CallCount(event.calls, "classify") = 1
          /\ CallCount(event.calls, "getOrderStatus")
               + CallCount(event.calls, "getProductInfo")
               + CallCount(event.calls, "queryPinecone") <= 1
    /\ "queryPinecone" \in Range(event.calls) =>
          /\ CallCount(event.calls, "generateGoogleEmbedding") = 1
          /\ CallCount(event.calls, "embedContent") <= 1
          /\ CallCount(event.calls, "index.query") <= 1
          /\ CallCount(event.calls, "generateContent") <= 1
    /\ (event.op \in {"classify", "embed"} /\ "index.query" \in Range(event.calls))
          => event.topK = 8
    /\ event.topK \in {0, 8}
    /\ event.op \in {"search", "generate"} =>
          CallCount(event.calls, "index.query") = 1

\* A RAG request has finished after the classification, one embedding from
\* the provider, one vector search and one generation call, in this order.
C31_Witness ==
    /\ event.op = "generate" /\ event.finished /\ ~event.threw
    /\ event.calls = <<"classify", "queryPinecone", "generateGoogleEmbedding",
                       "embedContent", "index.query", "generateContent">>

(***************************************************************************)
(* What requests share                                                     *)
(***************************************************************************)
RagServiceCalls ==
    { "queryPinecone", "generateGoogleEmbedding", "embedContent", "index.query",
      "generateContent" }

\* The last step routed its request to a lookup or to the clarification.
RoutedDirectly ==
    event.op = "classify" /\ event.route \in {"order", "product", "general"}

\* C32: the flag useMockEmbedding changes only in a step of
\* generateGoogleEmbedding that met a quota signal, and then to true.  A
\* request routed to the order lookup, the product lookup or the General
\* clarification finishes in its classification step without calling the
\* embedding, the vector search or the generation; that step leaves the flag
\* and every other request as they were, and its response is the one the
\* classification and the query give whatever the flag is.
C32_OnlyFlagShared ==
    [][/\ useMockEmbedding' # useMockEmbedding =>
             /\ event'.op = "embed"
             /\ CarriesQuotaSignal(event'.embedErr)
             /\ useMockEmbedding'
       /\ RoutedDirectly' =>
             /\ useMockEmbedding' = useMockEmbedding
             /\ event'.finished
             /\ Range(event'.calls) \cap RagServiceCalls = {}
             /\ ~event'.embedCalled /\ ~event'.providerContacted
             /\ ~event'.searched /\ event'.genKind = ""
             /\ \A r \in Requests \ {event'.req} :
                   pc'[r] = pc[r] /\ query'[r] = query[r] /\ calls'[r] = calls[r]
             /\ \A flag \in BOOLEAN :
                   RouteQuery(BlankEvent, event'.intentResult, event'.query, flag).ev.response
                      = event'.response]_vars

\* An order lookup has answered while the flag is set and another request
\* is waiting for its vector search.
C32_Witness ==
    /\ RoutedDirectly /\ event.route = "order" /\ event.finished
    /\ event.response.intent = "Order_Status"
    /\ useMockEmbedding
    /\ \E r \in Requests \ {event.req} : pc[r] = "awaitSearch"

(***************************************************************************)
(* Order lookup: tracking number                                           *)
(***************************************************************************)
\* The first (at most 7) decimal digits of the absolute value of the hash.
TrackingDigits(orderId) ==
    LET digits == BigToString(BigAbs(OrderHash(orderId)))
    IN  SubSeq(digits, 1, IF Len(digits) > 7 THEN 7 ELSE Len(digits))

\* C33: the message of getOrderStatus names a tracking number exactly when
\* the status is Shipped, and that number is "TRK" followed by the first (at
\* most 7) decimal digits of the absolute value of the hash; every message
\* contains the id in upper case.
C33_TrackingNumberIffShipped ==
    lookup.last.fn = "getOrderStatus" =>
        LET orderId == lookup.last.arg
            message == lookup.last.result
            shipped == ReportedStatuses(message) = { "Shipped" }
        IN  /\ Includes(message, "tracking number") <=> shipped
            /\ Includes(message, "TRK") <=> shipped
            /\ shipped =>
                 Includes(message, " Your tracking number is TRK"
                                      \o TrackingDigits(orderId) \o ".")
            /\ Includes(message, "**" \o ToUpperCase(orderId) \o "**")

\* A negative hash of ten digits gives a tracking number of seven digits,
\* the hash 99 one of two digits.
C33_Witness ==
    /\ lookup.prev = Call("getOrderStatus", "Q1W2E3R4",
           "The status for your order **Q1W2E3R4** is currently **Shipped**. It is expected to arrive on October 5th. Your tracking number is TRK1784224.")
    /\ OrderHash("Q1W2E3R4").hi < 0
    /\ lookup.last = Call("getOrderStatus", "c",
           "The status for your order **C** is currently **Shipped**. It is expected to arrive on October 5th. Your tracking number is TRK99.")

(***************************************************************************)
(* Order lookup: negative hash                                             *)
(***************************************************************************)
\* C34: when the hash of the id is negative (the 32-bit left shift has
\* overflowed), the JavaScript remainder hash % 3 is 0, -1 or -2, and
\* getOrderStatus reports Shipped for remainder 0 and Delivered otherwise,
\* never Processing; Processing is reported only for a hash that is not
\* negative.
C34_NegativeHashNeverProcessing ==
    lookup.last.fn = "getOrderStatus" =>
        LET hash == OrderHash(lookup.last.arg)
            reported == ReportedStatuses(lookup.last.result)
        IN  /\ BigIsNeg(hash) =>
                 /\ JsRem3(hash) \in {0, -1, -2}
                 /\ reported = IF JsRem3(hash) = 0 THEN { "Shipped" }
                               ELSE { "Delivered" }
            /\ "Processing" \in reported => ~BigIsNeg(hash) /\ JsRem3(hash) = 1

\* Two ids of negative hash: remainder 0 is Shipped, remainder -1 (1 modulo
\* 3 in absolute value) is Delivered.
C34_Witness ==
    /\ lookup.prev.fn = "getOrderStatus" /\ lookup.prev.arg = "Q1W2E3R4"
    /\ BigIsNeg(OrderHash("Q1W2E3R4")) /\ JsRem3(OrderHash("Q1W2E3R4")) = 0
    /\ ReportedStatuses(lookup.prev.result) = { "Shipped" }
    /\ lookup.last.fn = "getOrderStatus" /\ lookup.last.arg = "ABC1234"
    /\ BigIsNeg(OrderHash("ABC1234")) /\ JsRem3(OrderHash("ABC1234")) = -1
    /\ ReportedStatuses(lookup.last.result) = { "Delivered" }

(***************************************************************************)
(* Product lookup: both directions, first key wins                         *)
(***************************************************************************)
\* The positions of the catalog keys that qualify for an identifier: the key
\* is a substring of the normalized identifier, or the normalized identifier
\* is a substring of the key.
QualifyingKeys(identifier) ==
    { i \in 1..Len(productKeys) :
        \/ Includes(Normalized(identifier), productKeys[i])
        \/ Includes(productKeys[i], Normalized(identifier)) }

NotFoundMessage(result) ==
    Includes(result, "I'm sorry, I couldn't find specific details for a product named")

\* C35: getProductInfo returns the not-found message exactly when no catalog
\* key is a substring of the normalized identifier and the normalized
\* identifier is a substring of no key.  So an identifier that is empty once
\* trimmed, or a fragment of a key such as a single letter, returns a
\* product; and when several keys qualify the product returned is that of
\* the first of them in the order pro suite, basic plan, monitor x.
C35_FirstQualifyingKeyWins ==
    lookup.last.fn = "getProductInfo" =>
        LET identifier == lookup.last.arg
            result == lookup.last.result
            hits == QualifyingKeys(identifier)
        IN  /\ productKeys = << "pro suite", "basic plan", "monitor x" >>
            /\ NotFoundMessage(result) <=> hits = {}
            /\ hits # {} =>
                 \E i \in hits : /\ \A j \in hits : i <= j
                                 /\ result = ProductText(productKeys[i])
            /\ Normalized(identifier) = "" => result = ProductText("pro suite")
            /\ (Len(Normalized(identifier)) = 1
                  /\ \E i \in 1..Len(productKeys) :
                        Includes(productKeys[i], Normalized(identifier)))
                 => ~NotFoundMessage(result) /\ ReportedProducts(result) # {}

\* The letter n, a fragment of basic plan and of monitor x, returns the
\* Basic Plan; the empty identifier returned the Pro Suite before.
C35_Witness ==
    /\ lookup.prev.fn = "getProductInfo" /\ lookup.prev.arg = ""
    /\ lookup.prev.result = ProductText("pro suite")
    /\ lookup.last.fn = "getProductInfo" /\ lookup.last.arg = "n"
    /\ QualifyingKeys("n") = {2, 3}
    /\ lookup.last.result = ProductText("basic plan")

(***************************************************************************)
(* Ingestion: all or nothing                                               *)
(***************************************************************************)
\* C36: ingestData calls upsert at most once, after every record has been
\* embedded, with exactly one vector per record, in the order of the
\* records, keyed by the record id and carrying the record's id, doc_id,
\* question and answer as metadata; the store holds these vectors once the
\* upsert has resolved and nothing before, and nothing at all when a step
\* has thrown, in which case upsert was not called unless it is the upsert
\* that failed.  After a quota signal at record i the vectors of the records
\* before i come from the provider, those of i and later are synthetic with
\* 768 entries, and no later embedding can stop the ingestion.  Every run
\* ends inside ingestData, completed or with its error caught.
C36_IngestionAllOrNothing ==
    LET upserts == OpPositions("upsert")
        last == ingest.ops[Len(ingest.ops)]
    IN  /\ Cardinality(upserts) <= 1
        /\ upserts # {} =>
              /\ Len(ingest.vectors) = ingest.records
              /\ \A u \in upserts : u = Len(ingest.ops)
              /\ \A i \in 1..ingest.records :
                    /\ ingest.vectors[i].id = FaqRecord(i).id
                    /\ ingest.vectors[i].metadata =
                          [id |-> FaqRecord(i).id, doc_id |-> FaqRecord(i).doc_id,
                           question |-> FaqRecord(i).question,
                           answer |-> FaqRecord(i).answer]
        /\ ingest.upserted =>
              /\ ingest.stored = ingest.vectors
              /\ Len(ingest.stored) = ingest.records
              /\ upserts # {} /\ ~ingest.caught /\ ingest.pc = "done"
        /\ ~ingest.upserted => ingest.stored = <<>>
        /\ ingest.caught =>
              /\ ingest.pc = "done" /\ ingest.stored = <<>>
              /\ upserts # {} => last.name = "upsert"
        /\ ingest.pc = "done" => (ingest.upserted # ingest.caught)
        /\ ingest.quotaAt # 0 =>
              /\ ingest.pc \in {"embed", "upsert", "done"}
              /\ \A j \in 1..Len(ingest.vectors) :
                    /\ ingest.vectors[j].values.synthetic <=> j >= ingest.quotaAt
                    /\ j >= ingest.quotaAt => ingest.vectors[j].values.len = 768
              /\ ingest.caught => last.name = "upsert"

\* Two records, a quota signal at the second: the first vector comes from
\* the provider, the second is synthetic, and both are stored by one upsert.
C36_Witness ==
    /\ ingest.upserted /\ ingest.records = 2 /\ ingest.quotaAt = 2
    /\ Len(ingest.stored) = 2
    /\ ~ingest.stored[1].values.synthetic
    /\ ingest.stored[2].values.synthetic
    /\ ingest.stored[2].id = "faq-2"
    /\ Cardinality(OpPositions("upsert")) = 1

(***************************************************************************)
(* Chat UI: one turn                                                       *)
(***************************************************************************)
\* What a step of processUserQuery must do to the chat: a call with a blank
\* text changes nothing and posts nothing; a call with another text appends
\* the user message, sets isTyping and posts one request; the settling of a
\* request appends exactly one bot message, the backend's answer when the
\* request resolved and the fixed connection-error message when it was
\* rejected, and leaves isTyping false.
ChatTurn(before, after) ==
    LET step == after.last
    IN  /\ (step.op = "call" /\ Trim(step.queryText) = "") =>
              /\ after.messages = before.messages
              /\ after.isTyping = before.isTyping
              /\ after.pending = before.pending
              /\ after.posted = before.posted
        /\ (step.op = "call" /\ Trim(step.queryText) # "") =>
              /\ after.messages =
                    Append(before.messages, ChatMessage("user", step.queryText, ""))
              /\ after.isTyping
              /\ after.posted = before.posted + 1
        /\ step.op = "settle" =>
              /\ Len(after.messages) = Len(before.messages) + 1
              /\ SubSeq(after.messages, 1, Len(before.messages)) = before.messages
              /\ after.messages[Len(after.messages)].role = "bot"
              /\ after.messages[Len(after.messages)].text =
                    IF step.resolved THEN step.answer ELSE ConnectionErrorMessage
              /\ ~after.isTyping

\* C37: every step of processUserQuery does what ChatTurn says, on success
\* and on failure of the backend call.
C37_OneBotMessagePerQuery == [][ChatTurn(ui, ui')]_vars

\* The same, for the steps in which no exception left processUserQuery
\* and no speak call threw (the speech synthesis of the browser works).
ChatTurnWhenSpeechWorks ==
    [][(ui'.last.op = "settle" /\ ui'.last.resolved /\ ui'.last.spoken > 1)
          \/ ChatTurn(ui, ui')]_vars


====
